---- MODULE Spec2Model ----
(***************************************************************************)
(* Model of finally_chaincheck.py: a polling loop that asks one RPC node   *)
(* for its block height, tracks when the height last changed, prints a     *)
(* stall alert and reports assertions and lifecycle events to a sink.      *)
(*                                                                         *)
(* Python strings are sequences of one-character strings.  An optional     *)
(* value (None or an integer) is the empty sequence or a one-element       *)
(* sequence.                                                               *)
(***************************************************************************)
EXTENDS Integers, Sequences, FiniteSets, TLC

\* ---------------------------------------------------------------- bounds
MaxTolerance == 2
MaxMinBlock == 2
MaxStop == 4
MaxCycle == 4
MaxInterval == 2
MaxElapsed == 2

\* ------------------------------------------------------- optional values
None == <<>>
Some(v) == <<v>>
Val(o) == o[1]

\* ------------------------------------------------------- Python strings
Whitespace == {" ", "\t", "\n"}

HexDigits == <<"0", "1", "2", "3", "4", "5", "6", "7",
               "8", "9", "a", "b", "c", "d", "e", "f">>

UpperHexDigits == <<"0", "1", "2", "3", "4", "5", "6", "7",
                    "8", "9", "A", "B", "C", "D", "E", "F">>

IsHexDigit(c) == \E i \in 1..16 : HexDigits[i] = c \/ UpperHexDigits[i] = c

HexDigitValue(c) ==
    (CHOOSE i \in 1..16 : HexDigits[i] = c \/ UpperHexDigits[i] = c) - 1

RECURSIVE LStrip(_)
LStrip(s) ==
    IF s # <<>> /\ Head(s) \in Whitespace THEN LStrip(Tail(s)) ELSE s

RECURSIVE RStrip(_)
RStrip(s) ==
    IF s # <<>> /\ s[Len(s)] \in Whitespace
    THEN RStrip(SubSeq(s, 1, Len(s) - 1))
    ELSE s

Strip(s) == RStrip(LStrip(s))

\* `sub in s` for two strings
Contains(sub, s) ==
    \E i \in 1..(Len(s) - Len(sub) + 1) :
        SubSeq(s, i, i + Len(sub) - 1) = sub

\* value of a run of hex digits and underscores, most significant first
RECURSIVE DigitsValue(_, _)
DigitsValue(d, acc) ==
    IF d = <<>> THEN acc
    ELSE IF Head(d) = "_" THEN DigitsValue(Tail(d), acc)
    ELSE DigitsValue(Tail(d), 16 * acc + HexDigitValue(Head(d)))

\* int(s, 16): [ok |-> TRUE, value |-> n], or [ok |-> FALSE] for ValueError
PyIntBase16(s) ==
    LET t == Strip(s)
        signed == t # <<>> /\ Head(t) \in {"+", "-"}
        negative == signed /\ Head(t) = "-"
        u == IF signed THEN Tail(t) ELSE t
        prefixed == Len(u) >= 2 /\ u[1] = "0" /\ u[2] \in {"x", "X"}
        d == IF prefixed THEN SubSeq(u, 3, Len(u)) ELSE u
        wellFormed ==
            /\ d # <<>>
            /\ \A i \in 1..Len(d) : IsHexDigit(d[i]) \/ d[i] = "_"
            /\ d[Len(d)] # "_"
            /\ (d[1] = "_" => prefixed)
            /\ \A i \in 1..(Len(d) - 1) : ~(d[i] = "_" /\ d[i + 1] = "_")
    IN  IF wellFormed
        THEN [ok |-> TRUE,
              value |-> IF negative THEN 0 - DigitsValue(d, 0)
                                    ELSE DigitsValue(d, 0)]
        ELSE [ok |-> FALSE, value |-> 0]

EXCEPTION == <<"e", "x", "c", "e", "p", "t", "i", "o", "n">>

\* --------------------------------------------------------- Python values
PyStr(chars) == [type |-> "str", chars |-> chars]
PyNone == [type |-> "NoneType"]
PyInt(n) == [type |-> "int", value |-> n]
EmptyDict == [type |-> "dict"]
FailureDict(exc, status) ==
    [type |-> "dict", exception |-> exc, status |-> status]

\* ------------------------------------------------ what the network does
\* One request ends in an exception raised by urlopen/json.loads, in a
\* JSON object without a "result" member, or in a JSON object with one.
Raises(err) == [error |-> err, has_result |-> FALSE, result |-> PyNone]
NoResult == [error |-> "none", has_result |-> FALSE, result |-> PyNone]
Responds(v) == [error |-> "none", has_result |-> TRUE, result |-> v]

HexResults ==
    { <<"0", "x", "1">>,           \* 1
      <<"0", "X", "2">>,           \* 2
      <<"a">> }                    \* 10, no prefix

BadStrings ==
    { <<"0", "x">>,                \* prefix without digits
      <<"l", "a", "t", "e", "s", "t">>,
      EXCEPTION }

NetOutcomes ==
    { Raises("URLError"), Raises("HTTPError"), Raises("TimeoutError"),
      Raises("JSONDecodeError"), NoResult,
      Responds(PyNone), Responds(PyInt(2)), Responds(EmptyDict) }
    \cup { Responds(PyStr(s)) : s \in HexResults \cup BadStrings }

\* query_rpc_node: the value handed back to the loop
query_rpc_node(net) ==
    IF net.error \in {"HTTPError", "URLError", "TimeoutError"}
    THEN FailureDict(net.error, "node not running")
    ELSE IF net.error # "none"
    THEN FailureDict(net.error, "exception")
    ELSE IF ~net.has_result
    THEN FailureDict("KeyError", "exception")
    ELSE net.result

\* `"exception" in result`: TRUE/FALSE, or raises TypeError
SupportsIn(result) == result.type \in {"str", "dict"}

HasException(result) ==
    IF result.type = "dict" THEN "exception" \in DOMAIN result
    ELSE Contains(EXCEPTION, result.chars)

\* result['exception'] on line 76 needs a mapping
SupportsKeyLookup(result) == result.type = "dict"

\* int(current_block_hex, 16) on line 82 needs a string of hex digits
Decodes(result) == result.type = "str" /\ PyIntBase16(result.chars).ok

\* uncaught exception in the loop body for this result (lines 72, 76, 82)
RaisesUncaught(result) ==
    \/ ~SupportsIn(result)
    \/ SupportsIn(result) /\ HasException(result)
                          /\ ~SupportsKeyLookup(result)
    \/ SupportsIn(result) /\ ~HasException(result) /\ ~Decodes(result)

\* ------------------------------------------------------------------ state
VARIABLES
    pc,                         \* "init", "loop", "sleep", "stopped", "crashed"
    ALLOWED_MISSED_INTERVALS,   \* --tolerance
    MIN_BLOCK_FOR_ALERT,        \* --min
    stop_num,                   \* --stop, 0 to run forever
    CHECK_INTERVAL_SECS,        \* --interval
    last_block_number,          \* None or Some(height)
    last_block_update,          \* cycle at which the height last changed
    update_num,                 \* index of the current cycle
    consecutive_stalls,
    result,                     \* value of the last query_rpc_node call
    current_block,              \* None while unbound, else Some(height)
    stall_duration,             \* None while unbound, else Some(duration)
    emitted,                    \* signals sent to the sink by the last step
    alert,                      \* the ALERT line was printed in the last cycle
    branch,                     \* branch of the loop body the last cycle took
    prev,                       \* loop state as the last cycle found it
    increasing,                 \* every decoded height so far exceeded the one before
    sent_start,                 \* number of chain_check_start events so far
    sent_stop,                  \* number of chain_check_stop events so far
    requests,                   \* number of urlopen calls so far
    sleeps,                     \* number of time.sleep calls so far
    elapsed,                    \* time.time() - pass_start read on line 146
    slept,                      \* seconds of the sleep before the coming cycle
    steady,                     \* every cycle so far decoded the same height
    failed_since,               \* failed cycles since last_block_update
    unchanged_since,            \* unchanged-height cycles since last_block_update
    last_change                 \* how last_block_number got its value

config == <<ALLOWED_MISSED_INTERVALS, MIN_BLOCK_FOR_ALERT, stop_num,
            CHECK_INTERVAL_SECS>>

timing == <<elapsed, slept>>

since == <<failed_since, unchanged_since, last_change>>

tracked == <<last_block_number, last_block_update, consecutive_stalls>>

vars == <<pc, config, tracked, update_num, result, current_block,
          stall_duration, emitted, alert, branch, prev, increasing,
          sent_start, sent_stop, requests, sleeps, timing, steady, since>>

Unbound == [type |-> "unbound"]

\* str(args), as far as the loop depends on it
args ==
    [interval |-> CHECK_INTERVAL_SECS,
     tolerance |-> ALLOWED_MISSED_INTERVALS, min |-> MIN_BLOCK_FOR_ALERT,
     stop |-> stop_num]

\* --------------------------------------------------------------- signals
SendEvent(name, details) ==
    [kind |-> "send_event", name |-> name, details |-> details]

AssertAlways(condition, details) ==
    [kind |-> "always", condition |-> condition,
     message |-> "Blockchain is progressing", details |-> details]

AssertSometimes(condition, details) ==
    [kind |-> "sometimes", condition |-> condition,
     message |-> "Blockchain is progressing", details |-> details]

Snapshot ==
    [last_block_number |-> last_block_number,
     last_block_update |-> last_block_update,
     consecutive_stalls |-> consecutive_stalls,
     update_num |-> update_num,
     stall_duration |-> stall_duration,
     branch |-> branch]

\* ----------------------------------------------------- loop body, pieces
\* variant: the first check records the height but not the cycle
FirstCheckState_NoCycle(cb, un) ==
    [last_block_number |-> Some(cb), last_block_update |-> last_block_update,
     consecutive_stalls |-> 0]

\* lines 89-91
FirstCheckState(cb, un) ==
    [last_block_number |-> Some(cb), last_block_update |-> un,
     consecutive_stalls |-> 0]

\* variant: the progress branch forgets to reset the stall counter
BlockChangedState_KeepStalls(cb, un) ==
    [last_block_number |-> Some(cb), last_block_update |-> un,
     consecutive_stalls |-> consecutive_stalls]

\* variant: a lower height is noted but the tracked height only moves up
BlockChangedState_OnlyForward(cb, un) ==
    [last_block_number |->
         IF cb > Val(last_block_number) THEN Some(cb) ELSE last_block_number,
     last_block_update |-> un,
     consecutive_stalls |-> 0]

\* lines 96-98
BlockChangedState(cb, un) ==
    [last_block_number |-> Some(cb), last_block_update |-> un,
     consecutive_stalls |-> 0]

\* variant: the duration counts alerts raised so far instead of cycles
StallDuration_FromStalls(un, lbu) == consecutive_stalls + 1

\* variant: the duration counts the cycle of the change as well
StallDuration_Inclusive(un, lbu) == un - lbu + 1

\* variant: cycles whose poll failed are left out of the duration
StallDuration_SkipFailures(un, lbu) == un - lbu - failed_since

\* line 103
StallDuration(un, lbu) == un - lbu

\* variant: a height equal to the alert floor does not alert
ShouldAlert_StrictFloor(sd, cb) ==
    sd > ALLOWED_MISSED_INTERVALS /\ cb > MIN_BLOCK_FOR_ALERT

\* variant: the alert already fires when the duration reaches the tolerance
ShouldAlert_AtTolerance(sd, cb) ==
    sd >= ALLOWED_MISSED_INTERVALS /\ cb >= MIN_BLOCK_FOR_ALERT

\* lines 106-110; current_block is an int, so line 108 yields int(current_block)
ShouldAlert(sd, cb) ==
    sd > ALLOWED_MISSED_INTERVALS /\ cb >= MIN_BLOCK_FOR_ALERT

\* variant: the counter grows by the stall duration instead of by one
StallsAfterAlert_AddDuration(stalls) ==
    stalls + (update_num' - last_block_update)

\* line 112
StallsAfterAlert(stalls) == stalls + 1

\* lines 116-120
Details(cb, lbn, un) ==
    [current_block |-> cb, last_block |-> lbn, cycle |-> un]

\* variant: the guard looks at the baseline as it was before this cycle
AlwaysGuard_BeforeUpdate(lbn, node_reachable) ==
    last_block_number # None /\ node_reachable

\* line 123
AlwaysGuard(lbn, node_reachable) == lbn # None /\ node_reachable

\* variant: the assertions compare with the height known before the cycle
Assertions_BeforeBranches(cb, lbn, un, node_reachable) ==
    LET old == IF last_block_number = None THEN lbn ELSE last_block_number
    IN  (IF AlwaysGuard(old, node_reachable)
         THEN << AssertAlways(cb >= Val(old), Details(cb, Val(old), un)) >>
         ELSE << >>)
        \o << AssertSometimes(cb >= Val(old), Details(cb, Val(old), un)) >>

\* lines 116-134, evaluated after the branches have updated the state
Assertions(cb, lbn, un, node_reachable) ==
    (IF AlwaysGuard(lbn, node_reachable)
     THEN << AssertAlways(cb >= Val(lbn), Details(cb, Val(lbn), un)) >>
     ELSE << >>)
    \o << AssertSometimes(cb >= Val(lbn), Details(cb, Val(lbn), un)) >>

\* variant: the failure is printed but not reported to the sink
FailureSignals_Silent(res) == << >>

\* line 77
FailureSignals(res) == << SendEvent("exception is not none", res) >>

\* variant: the loop stops once the cycle index has reached the stop count
ExitCondition_AtLeast(un, sn) == un >= sn

\* variant: the loop stops one cycle before the stop count
ExitCondition_Before(un, sn) == un + 1 = sn

\* line 140
ExitCondition(un, sn) == un = sn

\* variant: the stop event is sent but the loop is not left
CycleEnd_NoBreak(signals) ==
    /\ emitted' = IF ExitCondition(update_num', stop_num)
                  THEN Append(signals, SendEvent("chain_check_stop", args))
                  ELSE signals
    /\ sent_stop' = IF ExitCondition(update_num', stop_num)
                    THEN sent_stop + 1
                    ELSE sent_stop
    /\ pc' = "sleep"

\* lines 136-146: the cycle ends, either in the exit or before the sleep
CycleEnd(signals) ==
    IF ExitCondition(update_num', stop_num)
    THEN /\ emitted' = Append(signals, SendEvent("chain_check_stop", args))
         /\ sent_stop' = sent_stop + 1
         /\ pc' = "stopped"
    ELSE /\ emitted' = signals
         /\ sent_stop' = sent_stop
         /\ pc' = "sleep"

\* variant: a request that raised is sent a second time in the same cycle
CycleBegin_Retry(net) ==
    /\ pc = "loop"
    /\ update_num < MaxCycle
    /\ update_num' = update_num + 1
    /\ result' = query_rpc_node(net)
    /\ prev' = Snapshot
    /\ requests' = requests + (IF net.error # "none" THEN 2 ELSE 1)
    /\ elapsed' = None
    /\ slept' = None
    /\ UNCHANGED <<config, sent_start, sleeps>>

\* lines 66-71: top of the loop
CycleBegin(net) ==
    /\ pc = "loop"
    /\ update_num < MaxCycle
    /\ update_num' = update_num + 1
    /\ result' = query_rpc_node(net)
    /\ prev' = Snapshot
    /\ requests' = requests + 1
    /\ elapsed' = None
    /\ slept' = None
    /\ UNCHANGED <<config, sent_start, sleeps>>

\* ---------------------------------------------------------------- actions
Init ==
    /\ pc = "init"
    /\ ALLOWED_MISSED_INTERVALS \in 0..MaxTolerance
    /\ MIN_BLOCK_FOR_ALERT \in 0..MaxMinBlock
    /\ stop_num \in 0..MaxStop
    /\ CHECK_INTERVAL_SECS \in 1..MaxInterval
    /\ last_block_number = None
    /\ last_block_update = 0
    /\ update_num = 0
    /\ consecutive_stalls = 0
    /\ result = Unbound
    /\ current_block = None
    /\ stall_duration = None
    /\ emitted = << >>
    /\ alert = FALSE
    /\ branch = "none"
    /\ prev = Snapshot
    /\ increasing = TRUE
    /\ sent_start = 0
    /\ sent_stop = 0
    /\ requests = 0
    /\ sleeps = 0
    /\ elapsed = None
    /\ slept = None
    /\ steady = TRUE
    /\ failed_since = 0
    /\ unchanged_since = 0
    /\ last_change = "none"

\* lines 37-64
Start ==
    /\ pc = "init"
    /\ emitted' = << SendEvent("chain_check_start", args) >>
    /\ sent_start' = sent_start + 1
    /\ pc' = "loop"
    /\ UNCHANGED <<config, tracked, update_num, result, current_block,
                   stall_duration, alert, branch, prev, increasing,
                   sent_stop, requests, sleeps, timing, steady, since>>

\* lines 72-82: TypeError or ValueError leaves the loop and the process
UncaughtException(net) ==
    /\ CycleBegin(net)
    /\ RaisesUncaught(result')
    /\ pc' = "crashed"
    /\ emitted' = << >>
    /\ alert' = FALSE
    /\ branch' = "crash"
    /\ steady' = FALSE
    /\ UNCHANGED <<tracked, current_block, stall_duration, increasing,
                   sent_stop, since>>

\* lines 74-78
ReportFailure(net) ==
    /\ CycleBegin(net)
    /\ ~RaisesUncaught(result')
    /\ HasException(result')
    /\ alert' = FALSE
    /\ branch' = "failure"
    /\ CycleEnd(FailureSignals(result'))
    /\ steady' = FALSE
    /\ failed_since' = failed_since + 1
    /\ UNCHANGED <<tracked, current_block, stall_duration, increasing,
                   unchanged_since, last_change>>

\* lines 79-92 and 116-134
FirstCheck(net) ==
    /\ CycleBegin(net)
    /\ ~RaisesUncaught(result')
    /\ ~HasException(result')
    /\ last_block_number = None
    /\ LET cb == PyIntBase16(result'.chars).value
           s == FirstCheckState(cb, update_num')
       IN  /\ current_block' = Some(cb)
           /\ last_block_number' = s.last_block_number
           /\ last_block_update' = s.last_block_update
           /\ consecutive_stalls' = s.consecutive_stalls
           /\ CycleEnd(Assertions(cb, s.last_block_number, update_num', TRUE))
    /\ alert' = FALSE
    /\ branch' = "first"
    /\ failed_since' = 0
    /\ unchanged_since' = 0
    /\ last_change' = "first"
    /\ UNCHANGED <<stall_duration, increasing, steady>>

\* lines 79-86, 94-99 and 116-134
BlockChanged(net) ==
    /\ CycleBegin(net)
    /\ ~RaisesUncaught(result')
    /\ ~HasException(result')
    /\ last_block_number # None
    /\ LET cb == PyIntBase16(result'.chars).value
           s == BlockChangedState(cb, update_num')
       IN  /\ cb # Val(last_block_number)
           /\ increasing' = (increasing /\ cb > Val(last_block_number))
           /\ last_change' =
                  IF cb > Val(last_block_number) THEN "up" ELSE "down"
           /\ current_block' = Some(cb)
           /\ last_block_number' = s.last_block_number
           /\ last_block_update' = s.last_block_update
           /\ consecutive_stalls' = s.consecutive_stalls
           /\ CycleEnd(Assertions(cb, s.last_block_number, update_num', TRUE))
    /\ alert' = FALSE
    /\ branch' = "changed"
    /\ steady' = FALSE
    /\ failed_since' = 0
    /\ unchanged_since' = 0
    /\ UNCHANGED stall_duration

\* lines 79-86, 101-114 and 116-134
BlockUnchanged(net) ==
    /\ CycleBegin(net)
    /\ ~RaisesUncaught(result')
    /\ ~HasException(result')
    /\ last_block_number # None
    /\ LET cb == PyIntBase16(result'.chars).value
           sd == StallDuration(update_num', last_block_update)
       IN  /\ cb = Val(last_block_number)
           /\ current_block' = Some(cb)
           /\ stall_duration' = Some(sd)
           /\ alert' = ShouldAlert(sd, cb)
           /\ consecutive_stalls' =
                  IF ShouldAlert(sd, cb)
                  THEN StallsAfterAlert(consecutive_stalls)
                  ELSE consecutive_stalls
           /\ CycleEnd(Assertions(cb, last_block_number, update_num', TRUE))
    /\ branch' = "unchanged"
    /\ increasing' = FALSE
    /\ unchanged_since' = unchanged_since + 1
    /\ UNCHANGED <<last_block_number, last_block_update, steady,
                   failed_since, last_change>>

\* variant: the sleep is the plain remainder, without the floor of 1
SleepSeconds_NoFloor(interval, spent) ==
    IF interval - spent > 0 THEN interval - spent ELSE 0

\* line 146: max(1, (pass_start + CHECK_INTERVAL_SECS) - time.time()),
\* with time.time() = pass_start + spent
SleepSeconds(interval, spent) ==
    IF interval - spent > 1 THEN interval - spent ELSE 1

\* line 146; the clock has advanced by e since pass_start was taken
Sleep ==
    /\ pc = "sleep"
    /\ \E e \in 0..MaxElapsed :
          /\ elapsed' = Some(e)
          /\ slept' = Some(SleepSeconds(CHECK_INTERVAL_SECS, e))
    /\ sleeps' = sleeps + 1
    /\ pc' = "loop"
    /\ UNCHANGED <<config, tracked, update_num, result, current_block,
                   stall_duration, emitted, alert, branch, prev, increasing,
                   sent_start, sent_stop, requests, steady, since>>

Next ==
    \/ Start
    \/ \E net \in NetOutcomes : UncaughtException(net)
    \/ \E net \in NetOutcomes : ReportFailure(net)
    \/ \E net \in NetOutcomes : FirstCheck(net)
    \/ \E net \in NetOutcomes : BlockChanged(net)
    \/ \E net \in NetOutcomes : BlockUnchanged(net)
    \/ Sleep

Spec == Init /\ [][Next]_vars

TypeOK ==
    /\ pc \in {"init", "loop", "sleep", "stopped", "crashed"}
    /\ update_num \in 0..MaxCycle
    /\ last_block_update \in 0..update_num
    /\ consecutive_stalls \in 0..update_num
    /\ alert \in BOOLEAN
    /\ branch \in {"none", "crash", "failure", "first", "changed",
                   "unchanged"}

\* ------------------------------------------------------------ properties
\* the last cycle decoded a height (a successful poll)
Successful == branch \in {"first", "changed", "unchanged"}

\* the signals of the last cycle without the trailing stop event
CycleSignals ==
    SelectSeq(emitted, LAMBDA sig : ~(sig.kind = "send_event"
                                      /\ sig.name = "chain_check_stop"))

FailureEvents ==
    SelectSeq(emitted, LAMBDA sig : sig.kind = "send_event"
                                    /\ sig.name = "exception is not none")

AssertionSignals ==
    SelectSeq(emitted, LAMBDA sig : sig.kind \in {"always", "sometimes"})

\* the last cycle polled a height below the one known before it
Regressed ==
    /\ Successful
    /\ prev.last_block_number # None
    /\ Val(current_block) < Val(prev.last_block_number)

\* the last cycle polled the height known before it
SameHeight == Successful /\ prev.last_block_number = current_block

\* C1: a cycle whose poll returns a height below the last known height
\* emits an "always" assertion whose condition is false.
C1_RegressionReported ==
    Regressed =>
        \E i \in 1..Len(emitted) :
            emitted[i].kind = "always" /\ emitted[i].condition = FALSE

\* C2: a cycle whose poll equals the last known height, with
\* cycle - last-changed cycle > tolerance and height >= minimum alert
\* height, prints the alert and raises the stall counter by exactly 1,
\* leaving last known height and last-changed cycle as they were.
C2_StallAlertFires ==
    ( /\ SameHeight
      /\ update_num - prev.last_block_update > ALLOWED_MISSED_INTERVALS
      /\ Val(current_block) >= MIN_BLOCK_FOR_ALERT )
    => /\ alert
       /\ consecutive_stalls = prev.consecutive_stalls + 1
       /\ last_block_number = prev.last_block_number
       /\ last_block_update = prev.last_block_update

C2_Witness ==
    /\ SameHeight
    /\ update_num - prev.last_block_update > ALLOWED_MISSED_INTERVALS
    /\ Val(current_block) = MIN_BLOCK_FOR_ALERT
    /\ alert
    /\ consecutive_stalls = 2

\* C3: the alert is printed only in a cycle whose poll equals the last
\* known height with stall duration > tolerance and height >= minimum
\* alert height; an unchanged-height cycle within the tolerance or below
\* the floor prints no alert and leaves the stall counter unchanged.
C3_AlertOnlyWhenStalled ==
    /\ alert =>
          /\ SameHeight
          /\ update_num - prev.last_block_update > ALLOWED_MISSED_INTERVALS
          /\ Val(current_block) >= MIN_BLOCK_FOR_ALERT
    /\ ( /\ SameHeight
         /\ \/ update_num - prev.last_block_update
                   <= ALLOWED_MISSED_INTERVALS
            \/ Val(current_block) < MIN_BLOCK_FOR_ALERT )
       => ~alert /\ consecutive_stalls = prev.consecutive_stalls

C3_Witness ==
    /\ SameHeight
    /\ update_num - prev.last_block_update = ALLOWED_MISSED_INTERVALS
    /\ ALLOWED_MISSED_INTERVALS > 0
    /\ Val(current_block) >= MIN_BLOCK_FOR_ALERT
    /\ ~alert

\* C4: a cycle whose poll returns a height above the last known height
\* resets the stall counter to 0, sets the last-changed cycle to the
\* current cycle and the last known height to the new height, and prints
\* no alert; while all decoded heights have been strictly increasing, no
\* alert has been printed and the stall counter is 0.
C4_ProgressResets ==
    /\ ( /\ Successful
         /\ prev.last_block_number # None
         /\ Val(current_block) > Val(prev.last_block_number) )
       => /\ consecutive_stalls = 0
          /\ last_block_update = update_num
          /\ last_block_number = current_block
          /\ ~alert
    /\ increasing => ~alert /\ consecutive_stalls = 0

C4_Witness ==
    /\ Successful
    /\ prev.last_block_number # None
    /\ Val(current_block) > Val(prev.last_block_number)
    /\ prev.consecutive_stalls > 0
    /\ consecutive_stalls = 0

\* C5: a cycle whose poll fails leaves last known height, last-changed
\* cycle and stall counter as they were, advances the cycle index by one,
\* emits exactly one failure event and no always/sometimes assertion.
C5_FailureKeepsState ==
    branch = "failure" =>
        /\ last_block_number = prev.last_block_number
        /\ last_block_update = prev.last_block_update
        /\ consecutive_stalls = prev.consecutive_stalls
        /\ update_num = prev.update_num + 1
        /\ Len(FailureEvents) = 1
        /\ FailureEvents[1].details = result
        /\ Len(AssertionSignals) = 0
        /\ Len(CycleSignals) = 1

C5_Witness ==
    /\ branch = "failure"
    /\ prev.consecutive_stalls > 0
    /\ prev.last_block_number # None
    /\ result.status = "node not running"

\* C6: no poll outcome is fatal: whatever is not a decoded height is a
\* reported failure, no exception leaves the loop, and the loop goes on.
C6_NoOutcomeFatal ==
    /\ pc # "crashed"
    /\ (update_num > 0 /\ ~Successful) =>
          branch = "failure" /\ Len(FailureEvents) = 1

\* C7: with stop count k > 0 the run can only end by stopping normally,
\* after exactly k cycles and exactly one stop event.
C7_StopsAfterKCycles ==
    (stop_num > 0 /\ pc \notin {"init", "loop", "sleep"}) =>
        /\ pc = "stopped"
        /\ update_num = stop_num
        /\ sent_stop = 1

\* C8: with stop count 0 the Stopped state is never reached and no stop
\* event is ever emitted.
C8_NeverStopsWithZero ==
    stop_num = 0 =>
        /\ pc # "stopped"
        /\ sent_stop = 0
        /\ Len(CycleSignals) = Len(emitted)

C8_Witness ==
    /\ stop_num = 0
    /\ update_num >= 4
    /\ pc = "sleep"
    /\ Successful

\* C9: an unchanged-height cycle never moves the last-changed cycle, and
\* when the cycle before it was an unchanged-height cycle too, its stall
\* duration is exactly 1 greater than the one computed there.
C9_StallDurationGrowsByOne ==
    branch = "unchanged" =>
        /\ last_block_update = prev.last_block_update
        /\ prev.branch = "unchanged" =>
              Val(stall_duration) = Val(prev.stall_duration) + 1

C9_Witness ==
    /\ branch = "unchanged"
    /\ prev.branch = "unchanged"
    /\ Val(stall_duration) = 3
    /\ last_block_update = 1

\* C10: every successful cycle, the baseline cycle included, emits exactly
\* one "always" and one "sometimes" assertion, both with the condition
\* current height >= last known height and the details of that cycle.
C10_SuccessfulCycleAssertions ==
    Successful =>
        LET cond == Val(current_block) >= Val(last_block_number)
            det == [current_block |-> Val(current_block),
                    last_block |-> Val(last_block_number),
                    cycle |-> update_num]
        IN  CycleSignals =
                << [kind |-> "always", condition |-> cond,
                    message |-> "Blockchain is progressing",
                    details |-> det],
                   [kind |-> "sometimes", condition |-> cond,
                    message |-> "Blockchain is progressing",
                    details |-> det] >>

C10_Witness ==
    /\ branch = "first"
    /\ update_num = 2
    /\ Len(AssertionSignals) = 2
    /\ AssertionSignals[1].details.cycle = 2

\* C11: in a run where every poll so far succeeded and returned the same
\* height h >= minimum alert height, the alert is printed in cycle c
\* exactly when c - 1 > tolerance, and after cycle c the stall counter is
\* max(0, c - 1 - tolerance).
C11_SteadyRunAlerts ==
    ( /\ steady
      /\ update_num >= 1
      /\ Val(current_block) >= MIN_BLOCK_FOR_ALERT )
    => /\ alert <=> (update_num - 1 > ALLOWED_MISSED_INTERVALS)
       /\ consecutive_stalls =
              IF update_num - 1 - ALLOWED_MISSED_INTERVALS > 0
              THEN update_num - 1 - ALLOWED_MISSED_INTERVALS
              ELSE 0

\* scenario 1: four equal polls, tolerance 1, stop 4
C11_Witness ==
    /\ steady
    /\ ALLOWED_MISSED_INTERVALS = 1
    /\ stop_num = 4
    /\ update_num = 4
    /\ pc = "stopped"
    /\ alert
    /\ consecutive_stalls = 2
    /\ prev.consecutive_stalls = 1
    /\ Val(current_block) >= MIN_BLOCK_FOR_ALERT

\* C12: while no poll has succeeded there is no last known height and a
\* failed cycle emits only its failure event; the first successful poll,
\* in whatever cycle c, sets the last known height to its height, the
\* last-changed cycle to c and the stall counter to 0 and prints no alert;
\* the stall duration of a later equal poll is counted from c.
C12_BaselineFromFirstSuccess ==
    /\ current_block = None =>
          /\ last_block_number = None
          /\ last_block_update = 0
          /\ consecutive_stalls = 0
          /\ ~alert
          /\ branch = "failure" =>
                CycleSignals = << [kind |-> "send_event",
                                   name |-> "exception is not none",
                                   details |-> result] >>
    /\ (Successful /\ prev.last_block_number = None) =>
          /\ branch = "first"
          /\ last_block_number = current_block
          /\ last_block_update = update_num
          /\ consecutive_stalls = 0
          /\ ~alert
    /\ (branch = "unchanged" /\ last_change = "first") =>
          /\ Val(stall_duration) = update_num - last_block_update
          /\ prev.branch = "first" => Val(stall_duration) = 1

\* scenario 3: fail, h, h with tolerance 1 and stop 3
C12_Witness ==
    /\ ALLOWED_MISSED_INTERVALS = 1
    /\ stop_num = 3
    /\ pc = "stopped"
    /\ update_num = 3
    /\ branch = "unchanged"
    /\ prev.branch = "first"
    /\ last_block_update = 2
    /\ failed_since = 0
    /\ Val(stall_duration) = 1
    /\ Val(current_block) >= MIN_BLOCK_FOR_ALERT
    /\ ~alert

StartEvents ==
    SelectSeq(emitted, LAMBDA sig : sig.kind = "send_event"
                                    /\ sig.name = "chain_check_start")

StopEvents ==
    SelectSeq(emitted, LAMBDA sig : sig.kind = "send_event"
                                    /\ sig.name = "chain_check_stop")

\* C13: exactly one start event is emitted, before the first poll and
\* before any assertion or failure event; the stop event is emitted at
\* most once, only on normal termination, and nothing follows it.
C13_SignalOrder ==
    /\ [] /\ pc = "init" =>
                /\ sent_start = 0
                /\ sent_stop = 0
                /\ requests = 0
                /\ emitted = << >>
          /\ pc # "init" => sent_start = 1
          /\ Len(StartEvents) > 0 =>
                /\ requests = 0
                /\ update_num = 0
                /\ Len(emitted) = 1
          /\ sent_stop = (IF pc = "stopped" THEN 1 ELSE 0)
          /\ pc = "stopped" =>
                /\ Len(StopEvents) = 1
                /\ emitted[Len(emitted)] = StopEvents[1]
          /\ pc # "stopped" => Len(StopEvents) = 0
    /\ [][pc # "stopped"]_vars

C13_Witness ==
    /\ pc = "stopped"
    /\ sent_start = 1
    /\ sent_stop = 1
    /\ Len(emitted) = 3
    /\ requests = 3

\* C14: a poll below the last known height still moves the tracked height
\* to the lower value, sets the last-changed cycle to the current cycle
\* and resets the stall counter; a following poll of that lower value is
\* handled as an unchanged height.
C14_RegressionAdvancesState ==
    /\ Regressed =>
          /\ branch = "changed"
          /\ last_change = "down"
          /\ last_block_number = current_block
          /\ last_block_update = update_num
          /\ consecutive_stalls = 0
    /\ (last_change = "down" /\ Successful /\ ~Regressed
          /\ prev.last_block_number = current_block) =>
          /\ branch = "unchanged"
          /\ last_block_number = current_block
          /\ last_block_update = prev.last_block_update
          /\ Val(stall_duration) = update_num - last_block_update

C14_Witness ==
    /\ last_change = "down"
    /\ branch = "unchanged"
    /\ prev.branch = "changed"
    /\ Val(stall_duration) = 1
    /\ Val(current_block) = 1

\* C15 as stated: a baseline height, once present, is never absent again,
\* no step leaves Stopped, and Stopped is entered only with a baseline
\* height (from Tracking).
C15_StateOrder ==
    [][ /\ last_block_number # None => last_block_number' # None
        /\ pc # "stopped"
        /\ pc' = "stopped" => last_block_number' # None ]_vars

\* C15: the monitor moves only in the order Uninitialized, Tracking,
\* Stopped: a baseline height, once present, is never absent again, no
\* step leaves Stopped, and Stopped is entered when the cycle index
\* reaches the stop count, from Tracking or, when every cycle up to the
\* stop count failed, directly from Uninitialized.
C15_StateOrderAmended ==
    [][ /\ last_block_number # None => last_block_number' # None
        /\ pc # "stopped"
        /\ pc' = "stopped" =>
              /\ update_num' = stop_num
              /\ last_block_number' = None =>
                    /\ current_block' = None
                    /\ failed_since' = update_num' ]_vars

C15_Witness ==
    /\ pc = "stopped"
    /\ last_block_number = None
    /\ update_num = 2
    /\ failed_since = 2
    /\ sent_stop = 1

\* C16: every cycle issues exactly one request, a failed one included, and
\* is complete before the next begins: in every state the number of
\* requests issued equals the cycle index, and a cycle that reported a
\* failure issued one request.
C16_OneRequestPerCycle ==
    /\ requests = update_num
    /\ branch # "none" => requests = prev.update_num + 1

C16_Witness ==
    /\ requests = 3
    /\ update_num = 3
    /\ branch = "failure"
    /\ prev.branch = "failure"
    /\ result.exception = "TimeoutError"
    /\ pc = "sleep"

\* C17: between two cycles the loop sleeps max(1, interval - time spent in
\* the cycle) seconds: never less than 1, the next cycle starts no earlier
\* than `interval` seconds after the previous one started, and the cycle
\* that ends the run is not followed by a sleep.
C17_SleepRemainder ==
    /\ slept # None =>
          /\ Val(slept) >= 1
          /\ Val(slept) >= CHECK_INTERVAL_SECS - Val(elapsed)
          /\ \/ Val(slept) = 1
             \/ Val(slept) = CHECK_INTERVAL_SECS - Val(elapsed)
          /\ Val(elapsed) + Val(slept) >= CHECK_INTERVAL_SECS
    /\ pc = "init" => sleeps = 0
    /\ pc = "loop" => sleeps = update_num
    /\ pc \in {"sleep", "stopped", "crashed"} => sleeps = update_num - 1

C17_Witness ==
    /\ pc = "loop"
    /\ CHECK_INTERVAL_SECS = 1
    /\ elapsed = Some(2)
    /\ slept = Some(1)
    /\ sleeps = 2

C19_FailedCyclesCount ==
    branch = "unchanged" =>
        /\ Val(stall_duration) = failed_since + unchanged_since
        /\ (unchanged_since = 1
              /\ Val(current_block) >= MIN_BLOCK_FOR_ALERT) =>
              (alert <=> failed_since > ALLOWED_MISSED_INTERVALS - 1)

C19_Witness ==
    /\ branch = "unchanged"
    /\ unchanged_since = 1
    /\ failed_since = 2
    /\ ALLOWED_MISSED_INTERVALS = 2
    /\ prev.branch = "failure"
    /\ alert
    /\ consecutive_stalls = 1

\* C20: in every reachable state (tolerance >= 0): 0 <= last-changed cycle
\* <= cycle index; the last-changed cycle is 0 exactly when there is no
\* baseline height; 0 <= stall counter <= max(0, cycle index -
\* last-changed cycle - tolerance); the counter is 0 whenever the last
\* known height changed in the current cycle.
C20_TrackedStateRanges ==
    ALLOWED_MISSED_INTERVALS >= 0 =>
        LET room == update_num - last_block_update
                        - ALLOWED_MISSED_INTERVALS
        IN  /\ 0 <= last_block_update
            /\ last_block_update <= update_num
            /\ last_block_update = 0 <=> last_block_number = None
            /\ 0 <= consecutive_stalls
            /\ consecutive_stalls <= (IF room > 0 THEN room ELSE 0)
            /\ (last_block_number # None /\ last_block_update = update_num)
                  => consecutive_stalls = 0

C20_Witness ==
    /\ ALLOWED_MISSED_INTERVALS = 0
    /\ last_block_update = 1
    /\ update_num = 4
    /\ failed_since = 1
    /\ consecutive_stalls = 2
    /\ branch = "unchanged"

====
